---- MODULE Spec2Model ----
(***************************************************************************)
(* Transcript player of the call tool (callTranscriptPlayer LWC): the      *)
(* pairing of recordings with transcripts, the asynchronous transcript     *)
(* load, and the synchronisation of the active transcript entry with the   *)
(* audio position.                                                         *)
(*                                                                         *)
(* Strings whose contents the code inspects (titles, file types, speaker   *)
(* labels) are sequences of one-character strings.  Times are counted in   *)
(* ticks of 1/TicksPerSecond second, so that a position strictly between   *)
(* two whole seconds (9.999 s against a boundary at 10 s) has a value.     *)
(***************************************************************************)
EXTENDS Integers, Sequences, FiniteSets, TLC

\* ------------------------------------------------------------------ bounds
\* Ticks per second of the time axis.
TicksPerSecond == 2
\* The audio position ranges over 0..MaxTime ticks.
MaxTime == 4
\* loadTranscript calls that may be suspended at an await at one time.
MaxInFlight == 2
\* A generated transcript has at most this many lines.
MaxLines == 4
\* Bracketed timestamps of generated lines are 10:00:00 .. 10:00:MaxStamp.
MaxStamp == 2
\* Widest progress bar, in pixels.
MaxWidth == 3
\* Largest horizontal position of a click, in pixels.
MaxClientX == 5

Null == "null"

\* ------------------------------------------------------------ string helpers
LowerOf == [c \in {"A", "B", "C", "E", "L", "M", "O", "P", "R", "T", "V", "W", "X"} |->
              CASE c = "A" -> "a" [] c = "B" -> "b" [] c = "C" -> "c"
                [] c = "E" -> "e" [] c = "L" -> "l" [] c = "O" -> "o"
                [] c = "R" -> "r"
                [] c = "M" -> "m" [] c = "P" -> "p" [] c = "T" -> "t"
                [] c = "V" -> "v" [] c = "W" -> "w" [] c = "X" -> "x"]

UpperOf == [c \in {"a", "m", "p", "t", "v", "w", "x"} |->
              CASE c = "a" -> "A" [] c = "m" -> "M" [] c = "p" -> "P"
                [] c = "t" -> "T" [] c = "v" -> "V" [] c = "w" -> "W"
                [] c = "x" -> "X"]

\* String.prototype.toLowerCase
toLowerCase(s) == [i \in 1..Len(s) |-> IF s[i] \in DOMAIN LowerOf THEN LowerOf[s[i]] ELSE s[i]]

\* String.prototype.toUpperCase
toUpperCase(s) == [i \in 1..Len(s) |-> IF s[i] \in DOMAIN UpperOf THEN UpperOf[s[i]] ELSE s[i]]

\* String.prototype.startsWith
startsWith(s, p) == Len(s) >= Len(p) /\ SubSeq(s, 1, Len(p)) = p

\* String.prototype.includes
includes(s, p) == \E i \in 0..(Len(s) - Len(p)) : SubSeq(s, i + 1, i + Len(p)) = p

\* Array.prototype.filter by a set of admitted elements, order kept.
RECURSIVE FilterSeq(_, _)
FilterSeq(s, keep) ==
    IF s = <<>> THEN <<>>
    ELSE (IF Head(s) \in keep THEN <<Head(s)>> ELSE <<>>) \o FilterSeq(Tail(s), keep)

Range(s) == {s[i] : i \in 1..Len(s)}

Max(a, b) == IF a >= b THEN a ELSE b

Min(a, b) == IF a <= b THEN a ELSE b

\* ------------------------------------------------------- transcript contents
\* A transcript text is a sequence of lines.  A line is kept by what the two
\* patterns of the program can see in it:
\*   header     starts with "Call ID:"
\*   separator  starts with "---"
\*   blank      empty or white space only
\*   entry      "[HH:MM:SS   speaker]   text"
\*   stamp      "[HH:MM:SS] text": a bracketed time with no speaker part
\*   noise      any other text
HeaderLine == [kind |-> "header", ts |-> <<0, 0, 0>>, speaker |-> <<>>]
SeparatorLine == [kind |-> "separator", ts |-> <<0, 0, 0>>, speaker |-> <<>>]
BlankLine == [kind |-> "blank", ts |-> <<0, 0, 0>>, speaker |-> <<>>]
NoiseLine == [kind |-> "noise", ts |-> <<0, 0, 0>>, speaker |-> <<>>]
EntryLine(s, who) == [kind |-> "entry", ts |-> <<10, 0, s>>, speaker |-> who]
StampLine(s) == [kind |-> "stamp", ts |-> <<10, 0, s>>, speaker |-> <<>>]
\* A line of the entry form whose digits are no time of day: [99:99:99 Agent] ...
MalformedLine == [kind |-> "entry", ts |-> <<99, 99, 99>>, speaker |-> <<"A", "g", "e", "n", "t">>]

SpeakerAgent == <<"A", "g", "e", "n", "t">>
SpeakerBot == <<"V", "i", "r", "t", "u", "a", "l", " ", "A", "g", "e", "n", "t">>
SpeakerCustomer == <<"C", "u", "s", "t", "o", "m", "e", "r">>
SpeakerCaller == <<"C", "A", "L", "L", "E", "R">>
SpeakerUpperBot == <<"B", "O", "T">>
SpeakerBotCaller == <<"B", "o", "t", " ", "C", "a", "l", "l", "e", "r">>
\* An entry without a speaker field.
MissingLabel == <<Null>>

\* Labels a transcript line carries (the pattern wants one character at least).
LineLabels ==
    {SpeakerAgent, SpeakerBot, SpeakerCustomer, SpeakerCaller, SpeakerUpperBot,
     SpeakerBotCaller}


\* timestampToSeconds of the parser: HH:MM:SS to seconds of the day.
timestampToSeconds(ts) == ts[1] * 3600 + ts[2] * 60 + ts[3]

\* Mutant of extractStartTime: only lines of the entry form are looked at.
extractStartTimeOfEntries(content) ==
    LET hits == {i \in 1..Len(content) : content[i].kind = "entry"}
    IN IF hits = {} THEN <<0, 0, 0>>
       ELSE content[CHOOSE i \in hits : \A j \in hits : i <= j].ts

\* extractStartTime: the time of the first "[dd:dd:dd" of the text, wherever it
\* stands, else 00:00:00.
extractStartTime(content) ==
    LET hits == {i \in 1..Len(content) : content[i].kind \in {"entry", "stamp"}}
    IN IF hits = {} THEN <<0, 0, 0>>
       ELSE content[CHOOSE i \in hits : \A j \in hits : i <= j].ts

\* Mutant of WellFormedTime: any two digits pass.
WellFormedTimeAnyDigits(ts) == TRUE

\* The components of HH:MM:SS are a time of day.
WellFormedTime(ts) == ts[1] < 24 /\ ts[2] < 60 /\ ts[3] < 60

\* The lines parseTranscript turns into entries: header, separator and blank
\* lines are skipped, then the line must match the entry pattern and carry a
\* time of day.
MatchedLines(content) ==
    FilterSeq(content, {l \in Range(content) :
                           l.kind = "entry" /\ WellFormedTime(l.ts)})

\* Mutant of parseTranscript: the index of an entry is the number of its line.
parseTranscriptLineNumbered(content, recordingStartTime) ==
    LET hits == {i \in 1..Len(content) :
                    content[i].kind = "entry" /\ WellFormedTime(content[i].ts)}
        nth(k) == CHOOSE i \in hits : Cardinality({j \in hits : j <= i}) = k
    IN [k \in 1..Cardinality(hits) |->
          [timestamp |-> content[nth(k)].ts,
           seconds |-> Max(0, timestampToSeconds(content[nth(k)].ts)
                              - timestampToSeconds(recordingStartTime)),
           speaker |-> content[nth(k)].speaker,
           entryIndex |-> nth(k) - 1]]

\* Mutant of parseTranscript: the offset is not clamped.
parseTranscriptUnclamped(content, recordingStartTime) ==
    LET m == MatchedLines(content)
    IN [k \in 1..Len(m) |->
          [timestamp |-> m[k].ts,
           seconds |-> timestampToSeconds(m[k].ts)
                         - timestampToSeconds(recordingStartTime),
           speaker |-> m[k].speaker,
           entryIndex |-> k - 1]]

\* Mutant of parseTranscript: the entries come out last line first.
parseTranscriptReversed(content, recordingStartTime) ==
    LET m == MatchedLines(content)
    IN [k \in 1..Len(m) |->
          [timestamp |-> m[Len(m) + 1 - k].ts,
           seconds |-> Max(0, timestampToSeconds(m[Len(m) + 1 - k].ts)
                              - timestampToSeconds(recordingStartTime)),
           speaker |-> m[Len(m) + 1 - k].speaker,
           entryIndex |-> k - 1]]

\* VoicecallSessionController.parseTranscript: one entry per matched line, in
\* the order of the text, the offset from the start time clamped at 0.
parseTranscript(content, recordingStartTime) ==
    LET m == MatchedLines(content)
    IN [k \in 1..Len(m) |->
          [timestamp |-> m[k].ts,
           seconds |-> Max(0, timestampToSeconds(m[k].ts)
                              - timestampToSeconds(recordingStartTime)),
           speaker |-> m[k].speaker,
           entryIndex |-> k - 1]]

\* ------------------------------------------------------------------ fixtures
\* Transcript texts the content source may hold for a transcript document.
TranscriptPlain ==
    <<HeaderLine, SeparatorLine, BlankLine,
      EntryLine(0, SpeakerBot), EntryLine(2, SpeakerCustomer)>>

\* The first bracketed time stands on a line that is no entry, and the lines
\* are not in the order of their times.
TranscriptDrift ==
    <<StampLine(0), EntryLine(1, SpeakerAgent), EntryLine(2, SpeakerCustomer),
      EntryLine(0, SpeakerAgent)>>

TranscriptNoEntries == <<HeaderLine, NoiseLine>>

TranscriptEmpty == <<>>

\* What the content source holds: a text for each transcript document.
StoreWorlds ==
    {[t1 |-> TranscriptPlain, t2 |-> TranscriptDrift],
     [t1 |-> TranscriptDrift, t2 |-> TranscriptNoEntries],
     [t1 |-> TranscriptEmpty, t2 |-> TranscriptPlain]}

Doc(id, title, fileType) ==
    [documentId |-> id, title |-> title, fileType |-> fileType,
     downloadUrl |-> <<"/download", id>>]

\* Stands for null where a document is expected.
NullDoc == Doc(Null, <<>>, <<>>)

\* call.mp3
DocCall == Doc("a1", <<"c", "a", "l", "l", ".", "m", "p", "3">>, <<"M", "P", "3">>)
\* call_2.mp3
DocCall2 ==
    Doc("a2", <<"c", "a", "l", "l", "_", "2", ".", "m", "p", "3">>, <<"m", "p", "3">>)
\* va_transcript_1.txt
DocVa ==
    Doc("t1",
        <<"v", "a", "_", "t", "r", "a", "n", "s", "c", "r", "i", "p", "t", "_", "1",
          ".", "t", "x", "t">>,
        <<"T", "X", "T">>)
\* rt_transcript_1.txt
DocRt ==
    Doc("t2",
        <<"r", "t", "_", "t", "r", "a", "n", "s", "c", "r", "i", "p", "t", "_", "1",
          ".", "t", "x", "t">>,
        <<"T", "X", "T">>)

\* Values the parent assigns to the documents property.
DocsPair == <<DocCall, DocVa, DocCall2, DocRt>>
DocsVaOnly == <<DocCall2, DocCall, DocVa>>
DocumentSets == {DocsPair, DocsVaOnly, <<>>}

TranscriptDocIds == {"t1", "t2"}

\* ------------------------------------------------------------------- state
VARIABLES
    documents,            \* _documents
    documentsProcessed,   \* _documentsProcessed
    recordings,
    selectedRecordingId,
    transcriptEntries,
    isLoadingTranscript,
    isLoadingRecordings,
    currentTime,          \* in ticks
    duration,             \* in ticks
    isPlaying,
    autoScroll,
    currentEntryIndex,
    audioElement,         \* TRUE once renderedCallback has found the <audio>
    recordingStartTime,
    audioPaused,          \* audioElement.paused
    audioSrc,             \* audioElement.src
    store,                \* content source: transcript document id -> text
    inflight,             \* loadTranscript calls suspended at an await
    entriesDoc,           \* history: the document transcriptEntries was parsed from
    effects,              \* what the last handler did besides assigning fields
    sessions,             \* voicecallSessionPlayer: sessions
    error,                \* voicecallSessionPlayer: error
    isLoading,            \* voicecallSessionPlayer: isLoading
    activeSections,       \* voicecallSessionPlayer: activeSections
    CONFIG,               \* loggerService: the module's configuration
    timers,               \* loggerService: the timers of each logger instance
    console               \* the console calls of the last logger call

\* The fields of the session list component.
sessionVars == <<sessions, error, isLoading, activeSections>>

\* The state of the logger service.  The logger is modelled on instances of
\* its own; the components are modelled without their log calls.
loggerVars == <<CONFIG, timers, console>>

vars ==
    <<documents, documentsProcessed, recordings, selectedRecordingId,
      transcriptEntries, isLoadingTranscript, isLoadingRecordings, currentTime,
      duration, isPlaying, autoScroll, currentEntryIndex, audioElement,
      recordingStartTime, audioPaused, audioSrc, store, inflight, entriesDoc,
      effects,
      sessions, error, isLoading, activeSections,
      CONFIG, timers, console>>

Times == 0..MaxTime

\* selected: selectRecording ran; highlight: the entry classes were recomputed;
\* scrollChecked: scrollToEntry was called; scrolled: scrollIntoView was called;
\* event: playbackupdate was dispatched; seek / seekDen: the position written to
\* audioElement.currentTime, as a fraction of ticks, -1 for none; seekBy: the
\* handler that wrote it.
NoEffects ==
    [selected |-> FALSE, highlight |-> FALSE, scrollChecked |-> FALSE,
     scrolled |-> FALSE, event |-> FALSE, seek |-> -1, seekDen |-> 1,
     seekBy |-> "none"]

\* audioElement.duration of every recording of the fixtures.
AudioDuration == MaxTime

\* ------------------------------------------------------------ pure helpers
\* formatTimeFromSeconds: M:SS, kept as the two numbers it prints.
formatTimeFromSeconds(totalSeconds) ==
    IF totalSeconds < 0 THEN [mins |-> 0, secs |-> 0]
    ELSE [mins |-> totalSeconds \div 60, secs |-> totalSeconds % 60]

getEntryClass(index, isActive) ==
    IF isActive THEN "transcript-entry active-entry" ELSE "transcript-entry"

\* Mutant of getSpeakerClass: the label is compared as written.
getSpeakerClassAsWritten(speaker) ==
    LET speakerLower == IF speaker = MissingLabel THEN <<>> ELSE speaker
    IN IF \/ includes(speakerLower, <<"v", "i", "r", "t", "u", "a", "l", " ", "a", "g", "e", "n", "t">>)
          \/ includes(speakerLower, <<"b", "o", "t">>)
       THEN "entry-speaker speaker-bot"
       ELSE IF \/ includes(speakerLower, <<"c", "u", "s", "t", "o", "m", "e", "r">>)
               \/ includes(speakerLower, <<"c", "a", "l", "l", "e", "r">>)
            THEN "entry-speaker speaker-customer"
            ELSE "entry-speaker speaker-agent"

\* getSpeakerClass; (speaker || '') turns a missing label into the empty one.
getSpeakerClass(speaker) ==
    LET speakerLower == toLowerCase(IF speaker = MissingLabel THEN <<>> ELSE speaker)
    IN IF \/ includes(speakerLower, <<"v", "i", "r", "t", "u", "a", "l", " ", "a", "g", "e", "n", "t">>)
          \/ includes(speakerLower, <<"b", "o", "t">>)
       THEN "entry-speaker speaker-bot"
       ELSE IF \/ includes(speakerLower, <<"c", "u", "s", "t", "o", "m", "e", "r">>)
               \/ includes(speakerLower, <<"c", "a", "l", "l", "e", "r">>)
            THEN "entry-speaker speaker-customer"
            ELSE "entry-speaker speaker-agent"

\* The entries.map of loadTranscript.
DecorateEntries(entries) ==
    [k \in 1..Len(entries) |->
       [timestamp |-> entries[k].timestamp,
        seconds |-> entries[k].seconds,
        speaker |-> entries[k].speaker,
        entryIndex |-> entries[k].entryIndex,
        displayTime |-> formatTimeFromSeconds(entries[k].seconds),
        entryClass |-> getEntryClass(entries[k].entryIndex, FALSE),
        speakerClass |-> getSpeakerClass(entries[k].speaker)]]

\* Mutant of InEntryInterval: the entry's own second is not yet its own.
InEntryIntervalStrictStart(entries, i, t) ==
    /\ t > entries[i + 1].seconds * TicksPerSecond
    /\ (i + 1 < Len(entries) => t < entries[i + 2].seconds * TicksPerSecond)

\* Mutant of InEntryInterval: the next entry's second still belongs to this one.
InEntryIntervalClosedEnd(entries, i, t) ==
    /\ t >= entries[i + 1].seconds * TicksPerSecond
    /\ (i + 1 < Len(entries) => t <= entries[i + 2].seconds * TicksPerSecond)

\* Mutant of InEntryInterval: the comparison with the entry's second is turned
\* around.
InEntryIntervalFlipped(entries, i, t) ==
    /\ t <= entries[i + 1].seconds * TicksPerSecond
    /\ (i + 1 < Len(entries) => t < entries[i + 2].seconds * TicksPerSecond)

\* The condition of the scan of updateActiveEntry for the entry at 0-based
\* position i: currentTime >= entry.seconds && currentTime < nextSeconds, the
\* last entry's nextSeconds being Infinity.  t is in ticks.
InEntryInterval(entries, i, t) ==
    /\ t >= entries[i + 1].seconds * TicksPerSecond
    /\ (i + 1 < Len(entries) => t < entries[i + 2].seconds * TicksPerSecond)

\* The scan of updateActiveEntry: the first position whose condition holds,
\* else -1.
NewActiveIndex(entries, t) ==
    LET hits == {i \in 0..(Len(entries) - 1) : InEntryInterval(entries, i, t)}
    IN IF hits = {} THEN -1 ELSE CHOOSE i \in hits : \A j \in hits : i <= j

\* The transcriptEntries.map of updateActiveEntry.
Highlight(entries, newActiveIndex) ==
    [k \in 1..Len(entries) |->
       [entries[k] EXCEPT !.entryClass =
          getEntryClass(entries[k].entryIndex, k - 1 = newActiveIndex)]]

\* Mutant of IndexChanged: the comparison with the stored index is left out.
IndexChangedAlways(entries, t, stored) ==
    entries # <<>>

\* updateActiveEntry goes past its early return and finds an index other than
\* the stored one.
IndexChanged(entries, t, stored) ==
    entries # <<>> /\ NewActiveIndex(entries, t) # stored

\* currentEntryIndex after updateActiveEntry.
UpdatedIndex(entries, t, stored) ==
    IF IndexChanged(entries, t, stored) THEN NewActiveIndex(entries, t) ELSE stored

\* transcriptEntries after updateActiveEntry.
UpdatedEntries(entries, t, stored) ==
    IF IndexChanged(entries, t, stored)
    THEN Highlight(entries, NewActiveIndex(entries, t))
    ELSE entries

\* ---------------------------------------------------------- processDocuments
IsAudio(doc) ==
    toUpperCase(doc.fileType) \in {<<"M", "P", "3">>, <<"W", "A", "V">>, <<"M", "4", "A">>}

IsVaTitle(title) ==
    \/ startsWith(title, <<"v", "a", "_">>)
    \/ includes(title, <<"v", "a", "_", "t", "r", "a", "n", "s", "c", "r", "i", "p", "t">>)

IsRtTitle(title) ==
    \/ startsWith(title, <<"r", "t", "_">>)
    \/ includes(title, <<"r", "t", "_", "t", "r", "a", "n", "s", "c", "r", "i", "p", "t">>)

\* The last document of docs at a position of idx, else null: what the loop over
\* allDocs leaves in vaTranscript and rtTranscript.
LastAt(docs, idx) ==
    IF idx = {} THEN NullDoc ELSE docs[CHOOSE i \in idx : \A j \in idx : j <= i]

\* Mutant of RtTranscript: the loop keeps one variable for both kinds.
RtTranscriptShared(docs) ==
    LastAt(docs, {i \in 1..Len(docs) : IsVaTitle(toLowerCase(docs[i].title))})

VaTranscript(docs) ==
    LastAt(docs, {i \in 1..Len(docs) : IsVaTitle(toLowerCase(docs[i].title))})

RtTranscript(docs) ==
    LastAt(docs, {i \in 1..Len(docs) :
                    /\ ~IsVaTitle(toLowerCase(docs[i].title))
                    /\ IsRtTitle(toLowerCase(docs[i].title))})

\* The audioFiles.map callback.
BuildRecording(audio, docs) ==
    LET audioTitle == toLowerCase(audio.title)
        secondary == includes(audioTitle, <<"_", "2">>)
        matchedTranscript == IF secondary THEN RtTranscript(docs) ELSE VaTranscript(docs)
        primaryMatched == ~secondary /\ matchedTranscript.documentId # Null
    IN [id |-> audio.documentId,
        audioUrl |-> audio.downloadUrl,
        audioTitle |-> audio.title,
        type |-> IF secondary THEN "agent"
                 ELSE IF primaryMatched THEN "virtual_agent" ELSE "call",
        label |-> [n |-> 0,
                   text |-> IF secondary THEN "Agent Call"
                            ELSE IF primaryMatched THEN "Virtual Agent" ELSE "Recording"],
        transcriptDoc |-> matchedTranscript,
        durationDisplay |-> [mins |-> -1, secs |-> -1],
        isActive |-> FALSE,
        pillClass |-> "recording-pill"]

\* recordings.sort by type: virtual_agent, agent, call; the sort is stable.
SortRecordings(recs) ==
    FilterSeq(recs, {r \in Range(recs) : r.type = "virtual_agent"})
    \o FilterSeq(recs, {r \in Range(recs) : r.type = "agent"})
    \o FilterSeq(recs, {r \in Range(recs) : r.type = "call"})

\* Labels get their position when there are several recordings.
NumberLabels(recs) ==
    IF Len(recs) > 1
    THEN [i \in 1..Len(recs) |-> [recs[i] EXCEPT !.label.n = i]]
    ELSE recs

\* this.recordings as processDocuments leaves it before the auto-selection.
ProcessedRecordings(docs) ==
    LET audioFiles == FilterSeq(docs, {d \in Range(docs) : IsAudio(d)})
    IN NumberLabels(SortRecordings(
           [i \in 1..Len(audioFiles) |-> BuildRecording(audioFiles[i], docs)]))

\* ------------------------------------------------------------------ actions
\* The fields as the class declares them.
InitPlayer ==
    /\ documents = <<>>
    /\ documentsProcessed = FALSE
    /\ recordings = <<>>
    /\ selectedRecordingId = Null
    /\ transcriptEntries = <<>>
    /\ isLoadingTranscript = TRUE
    /\ isLoadingRecordings = TRUE
    /\ currentTime = 0
    /\ duration = 0
    /\ isPlaying = FALSE
    /\ autoScroll = TRUE
    /\ currentEntryIndex = -1
    /\ audioElement = FALSE
    /\ recordingStartTime = <<0, 0, 0>>
    /\ audioPaused = TRUE
    /\ audioSrc = <<>>
    /\ inflight = <<>>
    /\ entriesDoc = Null
    /\ effects = NoEffects

\* ---------------------------------------------- the session list component
\* No error: the error field undefined.
NoError == [present |-> FALSE, hasBody |-> FALSE, message |-> <<>>]

\* Errors the wire adapter delivers: with body.message, with a body without
\* message, with an empty message, and {}.
ErrorWithMessage ==
    [present |-> TRUE, hasBody |-> TRUE, message |-> <<"T", "e", "s", "t">>]
WireErrors ==
    {ErrorWithMessage,
     [present |-> TRUE, hasBody |-> TRUE, message |-> <<>>],
     [present |-> TRUE, hasBody |-> FALSE, message |-> <<>>]}

GenericErrorMessage == <<"An error occurred while loading call recordings.">>

\* A session as getVoicecallSessions returns it; duration and agentName are
\* sequences of length 0 (absent) or 1.
RawSession(id, dur, agent) ==
    [sessionId |-> id, duration |-> dur, agentName |-> agent]

MaxSessions == 3

\* The lists the wire adapter delivers: distinct sessions, in any order.
SessionLists ==
    LET pool == {RawSession("s1", <<65>>, <<"Ann">>), RawSession("s2", <<0>>, <<>>),
                 RawSession("s3", <<>>, <<"Bo">>), RawSession("s4", <<130>>, <<>>)}
    IN {l \in UNION {[1..n -> pool] : n \in 0..MaxSessions} :
           \A i, j \in 1..Len(l) : l[i] = l[j] => i = j}

\* formatDuration: M:SS kept as its two numbers, <<>> for 'N/A'.
formatDuration(seconds) ==
    IF seconds = <<>> THEN <<>>
    ELSE <<seconds[1] \div 60, seconds[1] % 60>>

processSessionData(rawSessions) ==
    [k \in 1..Len(rawSessions) |->
       [sessionId |-> rawSessions[k].sessionId,
        duration |-> rawSessions[k].duration,
        formattedDuration |-> formatDuration(rawSessions[k].duration),
        accordionLabel |-> [n |-> k,
                            duration |-> formatDuration(rawSessions[k].duration)],
        agentName |-> IF rawSessions[k].agentName = <<>>
                      THEN <<"Unknown Agent">>
                      ELSE rawSessions[k].agentName]]

\* The fields as the class declares them.
InitSessions ==
    /\ sessions = <<>>
    /\ error = NoError
    /\ isLoading = TRUE
    /\ activeSections = <<>>

playerVars ==
    <<documents, documentsProcessed, recordings, selectedRecordingId,
      transcriptEntries, isLoadingTranscript, isLoadingRecordings, currentTime,
      duration, isPlaying, autoScroll, currentEntryIndex, audioElement,
      recordingStartTime, audioPaused, audioSrc, store, inflight, entriesDoc,
      effects>>

\* wiredSessions({ error, data }); hasData: data is not undefined.
wiredSessions(hasData, data, err) ==
    /\ isLoading' = FALSE
    /\ IF hasData
       THEN /\ sessions' = processSessionData(data)
            /\ error' = NoError
            /\ activeSections' = IF Len(data) = 1
                                 THEN <<data[1].sessionId>>
                                 ELSE activeSections
       ELSE IF err.present
            THEN /\ error' = err
                 /\ sessions' = <<>>
                 /\ UNCHANGED activeSections
            ELSE UNCHANGED <<sessions, error, activeSections>>
    /\ UNCHANGED playerVars
    /\ UNCHANGED loggerVars

hasNoCalls == ~isLoading /\ ~error.present /\ Len(sessions) = 0

hasCalls == ~isLoading /\ ~error.present /\ Len(sessions) > 0

\* Mutant of errorMessage: the generic message whatever the error carries.
errorMessageGeneric ==
    IF ~error.present THEN <<>> ELSE GenericErrorMessage

errorMessage ==
    IF ~error.present THEN <<>>
    ELSE IF error.hasBody /\ error.message # <<>>
         THEN error.message
         ELSE GenericErrorMessage

\* ------------------------------------------------------- the logger service
\* LOG_LEVELS: the rank of each level.
LOG_LEVELS == [debug |-> 0, info |-> 1, warn |-> 2, error |-> 3, none |-> 99]

\* CONFIG as the module declares it (APP_PREFIX, a constant text, left out).
InitialConfig ==
    [ENABLED |-> TRUE, MIN_LEVEL |-> "debug", ENABLE_TIMING |-> TRUE,
     ENABLE_GROUPING |-> TRUE]

\* The logger instances Logger.create has made, one per component.
Loggers == {"CallTranscriptPlayer", "VoicecallSessionPlayer"}

\* What a call leaves on the console: who called what, and the console
\* functions called, in order.
ConsoleCalls(logger, method, calls) ==
    [logger |-> logger, method |-> method, calls |-> calls]

InitLogger ==
    /\ CONFIG = InitialConfig
    /\ timers = [c \in Loggers |-> {}]
    /\ console = ConsoleCalls(Null, "create", <<>>)

\* _shouldLog(level)
shouldLog(level) ==
    IF ~CONFIG.ENABLED THEN FALSE
    ELSE LOG_LEVELS[level] >= LOG_LEVELS[CONFIG.MIN_LEVEL]

\* _log(level, message, data): one call of the console function of the level,
\* or none.
LogCalls(level) ==
    LET consoleFn == CASE level = "error" -> "error"
                       [] level = "warn" -> "warn"
                       [] level = "debug" -> "debug"
                       [] OTHER -> "log"
    IN IF ~shouldLog(level) THEN <<>> ELSE <<consoleFn>>

\* Mutant of GroupingOn: the master switch is not consulted.
GroupingOnSwitchIgnored == CONFIG.ENABLE_GROUPING

\* The test the grouping methods make before they touch the console.
GroupingOn == ~(~CONFIG.ENABLED \/ ~CONFIG.ENABLE_GROUPING)

\* group, groupOpen and groupEnd: one call of the console function, or none.
GroupCalls(fn) == IF ~GroupingOn THEN <<>> ELSE <<fn>>

\* A method of logger c that touches neither the timers nor the configuration.
Logged(c, method, calls) ==
    /\ console' = ConsoleCalls(c, method, calls)
    /\ UNCHANGED <<CONFIG, timers>>
    /\ UNCHANGED playerVars
    /\ UNCHANGED sessionVars

\* debug, info, warn and error: _log at the level of the method's name.
log(c, level) == Logged(c, level, LogCalls(level))

success(c) == Logged(c, "success", IF ~shouldLog("info") THEN <<>> ELSE <<"log">>)

group(c) == Logged(c, "group", GroupCalls("groupCollapsed"))

groupOpen(c) == Logged(c, "groupOpen", GroupCalls("group"))

groupEnd(c) == Logged(c, "groupEnd", GroupCalls("groupEnd"))

\* time(label): the timer is set, and its start goes through debug.
time(c, label) ==
    /\ IF ~CONFIG.ENABLED \/ ~CONFIG.ENABLE_TIMING
       THEN /\ console' = ConsoleCalls(c, "time", <<>>)
            /\ UNCHANGED timers
       ELSE /\ timers' = [timers EXCEPT ![c] = @ \cup {label}]
            /\ console' = ConsoleCalls(c, "time", LogCalls("debug"))
    /\ UNCHANGED CONFIG
    /\ UNCHANGED playerVars
    /\ UNCHANGED sessionVars

\* timeEnd(label): a warning when there is no such timer, else the duration.
timeEnd(c, label) ==
    /\ IF ~CONFIG.ENABLED \/ ~CONFIG.ENABLE_TIMING
       THEN /\ console' = ConsoleCalls(c, "timeEnd", <<>>)
            /\ UNCHANGED timers
       ELSE IF label \notin timers[c]
       THEN /\ console' = ConsoleCalls(c, "timeEnd", LogCalls("warn"))
            /\ UNCHANGED timers
       ELSE /\ timers' = [timers EXCEPT ![c] = @ \ {label}]
            /\ console' = ConsoleCalls(c, "timeEnd", <<"log">>)
    /\ UNCHANGED CONFIG
    /\ UNCHANGED playerVars
    /\ UNCHANGED sessionVars

table(c) ==
    Logged(c, "table", IF ~shouldLog("debug") THEN <<>> ELSE <<"log", "table">>)

lifecycle(c) ==
    Logged(c, "lifecycle", IF ~shouldLog("debug") THEN <<>> ELSE <<"log">>)

\* apex(methodName, params, result): a group around the parameters and the
\* result, each printed when it is defined.
apex(c, hasParams, hasResult) ==
    Logged(c, "apex",
           IF ~shouldLog("info") THEN <<>>
           ELSE GroupCalls("groupCollapsed")
                \o (IF hasParams THEN <<"log">> ELSE <<>>)
                \o (IF hasResult THEN <<"log">> ELSE <<>>)
                \o GroupCalls("groupEnd"))

\* A call of the Logger object that sets the configuration to config.
Configured(method, config) ==
    /\ CONFIG' = config
    /\ console' = ConsoleCalls(Null, method, <<>>)
    /\ UNCHANGED timers
    /\ UNCHANGED playerVars
    /\ UNCHANGED sessionVars

\* Logger.configure(newConfig): Object.assign of the keys newConfig has.
configure(keys, newConfig) ==
    Configured("configure",
               [k \in DOMAIN CONFIG |-> IF k \in keys THEN newConfig[k] ELSE CONFIG[k]])

enable == Configured("enable", [CONFIG EXCEPT !.ENABLED = TRUE])

disable == Configured("disable", [CONFIG EXCEPT !.ENABLED = FALSE])

setLevel(level) ==
    Configured("setLevel",
               IF level \in DOMAIN LOG_LEVELS
               THEN [CONFIG EXCEPT !.MIN_LEVEL = level] ELSE CONFIG)

Init ==
    /\ InitPlayer
    /\ InitSessions
    /\ InitLogger
    /\ store \in StoreWorlds

\* recordings.find(r => r.id === recordingId): the position, 0 when there is none.
FindRecording(recs, recordingId) ==
    LET hits == {i \in 1..Len(recs) : recs[i].id = recordingId}
    IN IF hits = {} THEN 0 ELSE CHOOSE i \in hits : \A j \in hits : i <= j

\* Mutant of FetchCall: the request is made for the first transcript document
\* whatever the recording.
FetchCallFirstTranscript(documentId, recordingId, shown) ==
    [phase |-> "fetch", documentId |-> "t1", content |-> <<>>,
     startTime |-> <<0, 0, 0>>, forRecording |-> recordingId,
     entriesAtDispatch |-> Len(shown)]

\* A loadTranscript call suspended at await getTranscriptContent.  forRecording
\* and entriesAtDispatch are history: the selection the call was made for and
\* the length of transcriptEntries when the request was sent.
FetchCall(documentId, recordingId, shown) ==
    [phase |-> "fetch", documentId |-> documentId, content |-> <<>>,
     startTime |-> <<0, 0, 0>>, forRecording |-> recordingId,
     entriesAtDispatch |-> Len(shown)]

\* Mutant of MarkActive: the recording selected before keeps its mark.
MarkActiveAdditive(recs, recordingId) ==
    [i \in 1..Len(recs) |->
       [recs[i] EXCEPT
          !.isActive = (recs[i].isActive \/ recs[i].id = recordingId),
          !.pillClass = IF recs[i].isActive \/ recs[i].id = recordingId
                        THEN "recording-pill active" ELSE "recording-pill"]]

\* The pill classes selectRecording gives the recordings.
MarkActive(recs, recordingId) ==
    [i \in 1..Len(recs) |->
       [recs[i] EXCEPT
          !.isActive = (recs[i].id = recordingId),
          !.pillClass = IF recs[i].id = recordingId
                        THEN "recording-pill active" ELSE "recording-pill"]]

\* Mutant of EntriesOnSelect: the entries shown are kept.
EntriesOnSelectKept(shown) == shown

\* What selectRecording leaves of the entries shown when it is called.
EntriesOnSelect(shown) == <<>>

\* selectRecording(recordingId), this.recordings being recs when it is called.
selectRecording(recordingId, recs) ==
    LET stop == audioElement /\ isPlaying
        at == FindRecording(recs, recordingId)
        hasTranscriptDoc == at # 0 /\ recs[at].transcriptDoc.documentId # Null
    IN /\ isPlaying' = (IF stop THEN FALSE ELSE isPlaying)
       /\ selectedRecordingId' = recordingId
       /\ currentTime' = 0
       /\ duration' = 0
       /\ currentEntryIndex' = -1
       /\ transcriptEntries' = EntriesOnSelect(transcriptEntries)
       /\ entriesDoc' = (IF EntriesOnSelect(transcriptEntries) = <<>> THEN Null ELSE entriesDoc)
       /\ recordings' = MarkActive(recs, recordingId)
       /\ IF hasTranscriptDoc
          THEN /\ isLoadingTranscript' = TRUE
               /\ inflight' = Append(inflight,
                     FetchCall(recs[at].transcriptDoc.documentId, recordingId,
                               transcriptEntries'))
          ELSE /\ isLoadingTranscript' = FALSE
               /\ UNCHANGED inflight
       /\ IF audioElement /\ at # 0
          THEN /\ audioSrc' = recs[at].audioUrl
               /\ audioPaused' = TRUE
          ELSE /\ audioPaused' = (IF stop THEN TRUE ELSE audioPaused)
               /\ UNCHANGED audioSrc

\* The documents setter, with processDocuments on the first assignment.
SetDocuments(value) ==
    LET docs == value
        recs == ProcessedRecordings(docs)
    IN /\ documents' = docs
       /\ effects' = [NoEffects EXCEPT !.selected = ~documentsProcessed /\ Len(recs) > 0]
       /\ IF documentsProcessed
          THEN UNCHANGED <<documentsProcessed, recordings, selectedRecordingId,
                           transcriptEntries, isLoadingTranscript,
                           isLoadingRecordings, currentTime, duration, isPlaying,
                           currentEntryIndex, audioPaused, audioSrc,
                           inflight, entriesDoc>>
          ELSE /\ documentsProcessed' = TRUE
               /\ isLoadingRecordings' = FALSE
               /\ IF Len(recs) > 0
                  THEN selectRecording(recs[1].id, recs)
                  ELSE /\ isLoadingTranscript' = FALSE
                       /\ recordings' = recs
                       /\ UNCHANGED <<selectedRecordingId, transcriptEntries,
                                      currentTime, duration, isPlaying,
                                      currentEntryIndex, audioPaused,
                                      audioSrc, inflight, entriesDoc>>
       /\ UNCHANGED <<autoScroll, audioElement, recordingStartTime, store>>
       /\ UNCHANGED sessionVars
       /\ UNCHANGED loggerVars

renderedCallback ==
    /\ ~audioElement
    /\ audioElement' = TRUE
    /\ effects' = NoEffects
    /\ UNCHANGED <<documents, documentsProcessed, recordings, selectedRecordingId,
                   transcriptEntries, isLoadingTranscript, isLoadingRecordings,
                   currentTime, duration, isPlaying, autoScroll, currentEntryIndex,
                   recordingStartTime, audioPaused, audioSrc, store,
                   inflight, entriesDoc>>
    /\ UNCHANGED sessionVars
    /\ UNCHANGED loggerVars

\* A click on the pill of recording recordingId.
handleRecordingSelect(recordingId) ==
    /\ Len(inflight) < MaxInFlight
    /\ selectRecording(recordingId, recordings)
    /\ effects' = [NoEffects EXCEPT !.selected = TRUE]
    /\ UNCHANGED <<documents, documentsProcessed, isLoadingRecordings, autoScroll,
                   audioElement, recordingStartTime, store>>
    /\ UNCHANGED sessionVars
    /\ UNCHANGED loggerVars

RemoveAt(s, k) == SubSeq(s, 1, k - 1) \o SubSeq(s, k + 1, Len(s))

loadUnchanged ==
    <<documents, documentsProcessed, recordings, selectedRecordingId,
      isLoadingRecordings, currentTime, duration, isPlaying, autoScroll,
      currentEntryIndex, audioElement, audioPaused, audioSrc, store>>

\* getTranscriptContent resolves for the k-th suspended call.  Content that is
\* not empty goes on to parseTranscript; empty content ends the call.
FetchResolved(k) ==
    LET call == inflight[k]
        content == store[call.documentId]
    IN /\ call.phase = "fetch"
       /\ effects' = NoEffects
       /\ IF content # <<>>
          THEN /\ recordingStartTime' = extractStartTime(content)
               /\ inflight' = [inflight EXCEPT ![k] =
                     [call EXCEPT !.phase = "parse", !.content = content,
                                  !.startTime = extractStartTime(content)]]
               /\ UNCHANGED <<transcriptEntries, isLoadingTranscript, entriesDoc>>
          ELSE /\ inflight' = RemoveAt(inflight, k)
               /\ isLoadingTranscript' = FALSE
               /\ UNCHANGED <<recordingStartTime, transcriptEntries, entriesDoc>>
       /\ UNCHANGED loadUnchanged
       /\ UNCHANGED sessionVars
       /\ UNCHANGED loggerVars

\* parseTranscript resolves for the k-th suspended call.
ParseResolved(k) ==
    LET call == inflight[k]
    IN /\ call.phase = "parse"
       /\ effects' = NoEffects
       /\ transcriptEntries' =
            DecorateEntries(parseTranscript(call.content, call.startTime))
       /\ entriesDoc' = call.documentId
       /\ isLoadingTranscript' = FALSE
       /\ inflight' = RemoveAt(inflight, k)
       /\ UNCHANGED recordingStartTime
       /\ UNCHANGED loadUnchanged
       /\ UNCHANGED sessionVars
       /\ UNCHANGED loggerVars

\* Mutant of EntriesOnFailure: the catch block leaves the entries shown.
EntriesOnFailureKept(shown) == shown

\* What the catch block of loadTranscript leaves of the entries shown.
EntriesOnFailure(shown) == <<>>

\* Mutant of LoadRejected: the finally block does not clear the loading flag.
LoadRejectedNoFinally(k) ==
    /\ k \in 1..Len(inflight)
    /\ effects' = NoEffects
    /\ transcriptEntries' = EntriesOnFailure(transcriptEntries)
    /\ entriesDoc' = Null
    /\ isLoadingTranscript' = isLoadingTranscript
    /\ inflight' = RemoveAt(inflight, k)
    /\ UNCHANGED recordingStartTime
    /\ UNCHANGED loadUnchanged
    /\ UNCHANGED sessionVars
    /\ UNCHANGED loggerVars

\* The awaited call of the k-th suspended loadTranscript rejects: the catch
\* block, then the finally block.
LoadRejected(k) ==
    /\ k \in 1..Len(inflight)
    /\ effects' = NoEffects
    /\ transcriptEntries' = EntriesOnFailure(transcriptEntries)
    /\ entriesDoc' = Null
    /\ isLoadingTranscript' = FALSE
    /\ inflight' = RemoveAt(inflight, k)
    /\ UNCHANGED recordingStartTime
    /\ UNCHANGED loadUnchanged
    /\ UNCHANGED sessionVars
    /\ UNCHANGED loggerVars

\* Mutant of ShouldScroll: the autoScroll flag is not looked at.
ShouldScrollAlways(changed, auto, newActiveIndex) ==
    changed /\ newActiveIndex >= 0

\* updateActiveEntry calls scrollToEntry: inside the branch of a changed index,
\* when autoScroll is on and the new index is an entry's.
ShouldScroll(changed, auto, newActiveIndex) ==
    changed /\ auto /\ newActiveIndex >= 0

\* Mutant of handleTimeUpdate: playbackupdate is dispatched only when the active
\* entry changed.
handleTimeUpdateEventOnChange(t, outside) ==
    LET changed == IndexChanged(transcriptEntries, t, currentEntryIndex)
        toScroll == ShouldScroll(changed, autoScroll,
                                 NewActiveIndex(transcriptEntries, t))
    IN /\ audioElement
       /\ currentTime' = t
       /\ currentEntryIndex' = UpdatedIndex(transcriptEntries, t, currentEntryIndex)
       /\ transcriptEntries' = UpdatedEntries(transcriptEntries, t, currentEntryIndex)
       /\ outside => toScroll
       /\ effects' = [NoEffects EXCEPT !.highlight = changed,
                                       !.scrollChecked = toScroll,
                                       !.scrolled = toScroll /\ outside,
                                       !.event = changed]
       /\ UNCHANGED <<documents, documentsProcessed, recordings,
                      selectedRecordingId, isLoadingTranscript,
                      isLoadingRecordings, duration, isPlaying, autoScroll,
                      audioElement, recordingStartTime, audioPaused,
                      audioSrc, store, inflight, entriesDoc>>
       /\ UNCHANGED sessionVars
       /\ UNCHANGED loggerVars

\* The timeupdate handler.  t: the position read from audioElement.currentTime,
\* which playback and seeks move; outside: the entry's rectangle is not within
\* the container's (scrollToEntry).
handleTimeUpdate(t, outside) ==
    LET changed == IndexChanged(transcriptEntries, t, currentEntryIndex)
        toScroll == ShouldScroll(changed, autoScroll,
                                 NewActiveIndex(transcriptEntries, t))
    IN /\ audioElement
       /\ currentTime' = t
       /\ currentEntryIndex' = UpdatedIndex(transcriptEntries, t, currentEntryIndex)
       /\ transcriptEntries' = UpdatedEntries(transcriptEntries, t, currentEntryIndex)
       /\ outside => toScroll
       /\ effects' = [NoEffects EXCEPT !.highlight = changed,
                                       !.scrollChecked = toScroll,
                                       !.scrolled = toScroll /\ outside,
                                       !.event = TRUE]
       /\ UNCHANGED <<documents, documentsProcessed, recordings,
                      selectedRecordingId, isLoadingTranscript,
                      isLoadingRecordings, duration, isPlaying, autoScroll,
                      audioElement, recordingStartTime, audioPaused,
                      audioSrc, store, inflight, entriesDoc>>
       /\ UNCHANGED sessionVars
       /\ UNCHANGED loggerVars

handleLoadedMetadata ==
    /\ audioElement
    /\ audioSrc # <<>>
    /\ duration' = AudioDuration
    /\ recordings' =
         [i \in 1..Len(recordings) |->
            IF recordings[i].id = selectedRecordingId
            THEN [recordings[i] EXCEPT !.durationDisplay =
                    formatTimeFromSeconds(AudioDuration \div TicksPerSecond)]
            ELSE recordings[i]]
    /\ effects' = NoEffects
    /\ UNCHANGED <<documents, documentsProcessed, selectedRecordingId,
                   transcriptEntries, isLoadingTranscript, isLoadingRecordings,
                   currentTime, isPlaying, autoScroll, currentEntryIndex,
                   audioElement, recordingStartTime, audioPaused,
                   audioSrc, store, inflight, entriesDoc>>
    /\ UNCHANGED sessionVars
    /\ UNCHANGED loggerVars

\* Mutant of handleAudioEnded: the flag is left as it is.
handleAudioEndedFlagKept ==
    /\ audioElement
    /\ ~audioPaused
    /\ audioPaused' = TRUE
    /\ isPlaying' = isPlaying
    /\ effects' = NoEffects
    /\ UNCHANGED <<documents, documentsProcessed, recordings, selectedRecordingId,
                   transcriptEntries, isLoadingTranscript, isLoadingRecordings,
                   currentTime, duration, autoScroll, currentEntryIndex,
                   audioElement, recordingStartTime, audioSrc, store,
                   inflight, entriesDoc>>
    /\ UNCHANGED sessionVars
    /\ UNCHANGED loggerVars

\* The audio element has played to its end.
handleAudioEnded ==
    /\ audioElement
    /\ ~audioPaused
    /\ audioPaused' = TRUE
    /\ isPlaying' = FALSE
    /\ effects' = NoEffects
    /\ UNCHANGED <<documents, documentsProcessed, recordings, selectedRecordingId,
                   transcriptEntries, isLoadingTranscript, isLoadingRecordings,
                   currentTime, duration, autoScroll, currentEntryIndex,
                   audioElement, recordingStartTime, audioSrc, store,
                   inflight, entriesDoc>>
    /\ UNCHANGED sessionVars
    /\ UNCHANGED loggerVars

handlePlayPause ==
    /\ audioElement
    /\ audioPaused' = isPlaying
    /\ isPlaying' = ~isPlaying
    /\ effects' = NoEffects
    /\ UNCHANGED <<documents, documentsProcessed, recordings, selectedRecordingId,
                   transcriptEntries, isLoadingTranscript, isLoadingRecordings,
                   currentTime, duration, autoScroll, currentEntryIndex,
                   audioElement, recordingStartTime, audioSrc, store,
                   inflight, entriesDoc>>
    /\ UNCHANGED sessionVars
    /\ UNCHANGED loggerVars

\* A click on the k-th rendered entry: a seek to its data-seconds.
handleTranscriptClick(k) ==
    /\ k \in 1..Len(transcriptEntries)
    /\ audioElement
    /\ effects' = [NoEffects EXCEPT
                      !.seek = transcriptEntries[k].seconds * TicksPerSecond,
                      !.seekBy = "handleTranscriptClick"]
    /\ audioPaused' = (IF ~isPlaying THEN FALSE ELSE audioPaused)
    /\ isPlaying' = TRUE
    /\ UNCHANGED <<documents, documentsProcessed, recordings, selectedRecordingId,
                   transcriptEntries, isLoadingTranscript, isLoadingRecordings,
                   currentTime, duration, autoScroll, currentEntryIndex,
                   audioElement, recordingStartTime, audioSrc, store, inflight,
                   entriesDoc>>
    /\ UNCHANGED sessionVars
    /\ UNCHANGED loggerVars

\* A number as a fraction with a positive denominator.
Frac(n, d) == [num |-> n, den |-> d]

FracLeq(a, b) == a.num * b.den <= b.num * a.den

\* Math.max on fractions.
FracMax(a, b) == IF FracLeq(a, b) THEN b ELSE a

\* Mutant of ClampPosition: the upper limit is left out.
ClampPositionNoUpper(newTime, dur) == FracMax(Frac(0, 1), newTime)

\* Math.max(0, Math.min(this.duration, newTime))
ClampPosition(newTime, dur) ==
    FracMax(Frac(0, 1), IF FracLeq(Frac(dur, 1), newTime) THEN Frac(dur, 1) ELSE newTime)

\* A click at clientX on the progress bar whose rectangle starts at left and is
\* width pixels wide.
handleProgressClick(clientX, left, width) ==
    LET newTime == Frac((clientX - left) * duration, width)
        written == ClampPosition(newTime, duration)
    IN /\ audioElement
       /\ effects' = [NoEffects EXCEPT !.seek = written.num,
                                       !.seekDen = written.den,
                                       !.seekBy = "handleProgressClick"]
       /\ UNCHANGED <<documents, documentsProcessed, recordings,
                      selectedRecordingId, transcriptEntries, isLoadingTranscript,
                      isLoadingRecordings, currentTime, duration, isPlaying,
                      autoScroll, currentEntryIndex, audioElement,
                      recordingStartTime, audioPaused, audioSrc, store, inflight,
                      entriesDoc>>
       /\ UNCHANGED sessionVars
       /\ UNCHANGED loggerVars

\* The seconds a skip button moves the position by.
SkipSeconds == 10

\* handleSkipBack; t: the position read from audioElement.currentTime.
handleSkipBack(t) ==
    /\ audioElement
    /\ effects' = [NoEffects EXCEPT
                      !.seek = Max(0, t - SkipSeconds * TicksPerSecond),
                      !.seekBy = "handleSkipBack"]
    /\ UNCHANGED <<documents, documentsProcessed, recordings,
                   selectedRecordingId, transcriptEntries, isLoadingTranscript,
                   isLoadingRecordings, currentTime, duration, isPlaying,
                   autoScroll, currentEntryIndex, audioElement,
                   recordingStartTime, audioPaused, audioSrc, store, inflight,
                   entriesDoc>>
    /\ UNCHANGED sessionVars
    /\ UNCHANGED loggerVars

\* handleSkipForward; t: the position read from audioElement.currentTime.
handleSkipForward(t) ==
    /\ audioElement
    /\ effects' = [NoEffects EXCEPT
                      !.seek = Min(duration, t + SkipSeconds * TicksPerSecond),
                      !.seekBy = "handleSkipForward"]
    /\ UNCHANGED <<documents, documentsProcessed, recordings,
                   selectedRecordingId, transcriptEntries, isLoadingTranscript,
                   isLoadingRecordings, currentTime, duration, isPlaying,
                   autoScroll, currentEntryIndex, audioElement,
                   recordingStartTime, audioPaused, audioSrc, store, inflight,
                   entriesDoc>>
    /\ UNCHANGED sessionVars
    /\ UNCHANGED loggerVars

handleToggleAutoScroll ==
    /\ autoScroll' = ~autoScroll
    /\ effects' = NoEffects
    /\ UNCHANGED <<documents, documentsProcessed, recordings, selectedRecordingId,
                   transcriptEntries, isLoadingTranscript, isLoadingRecordings,
                   currentTime, duration, isPlaying, currentEntryIndex,
                   audioElement, recordingStartTime, audioPaused,
                   audioSrc, store, inflight, entriesDoc>>
    /\ UNCHANGED sessionVars
    /\ UNCHANGED loggerVars

\* Every step but a rejected request.
NextNoFailure ==
    \/ \E value \in DocumentSets : SetDocuments(value)
    \/ renderedCallback
    \/ \E r \in Range(recordings) : handleRecordingSelect(r.id)
    \/ \E k \in 1..Len(inflight) : FetchResolved(k)
    \/ \E k \in 1..Len(inflight) : ParseResolved(k)
    \/ \E t \in Times, outside \in BOOLEAN : handleTimeUpdate(t, outside)
    \/ handleLoadedMetadata
    \/ handleAudioEnded
    \/ handlePlayPause
    \/ \E k \in 1..Len(transcriptEntries) : handleTranscriptClick(k)
    \/ handleToggleAutoScroll

Next ==
    \/ NextNoFailure
    \/ \E k \in 1..Len(inflight) : LoadRejected(k)

Spec == Init /\ [][Next]_vars

\* The player when every request of getTranscriptContent and parseTranscript
\* resolves.
NoFailureSpec == Init /\ [][NextNoFailure]_vars

\* --------------------------------------------- synchroniser on any transcript
\* Lines of generated transcripts.  A leading stamp line at 10:00:00 makes the
\* start time 10:00:00, so that the entries that follow take every sequence of
\* offsets in 0..MaxStamp.
\* Every transcript text of at most MaxLines such lines.
GeneratedContents ==
    LET lines == {HeaderLine, StampLine(0)}
                 \cup {EntryLine(sec, SpeakerAgent) : sec \in 0..MaxStamp}
    IN UNION {[1..n -> lines] : n \in 0..MaxLines}

\* The player as constructed, the content source holding one generated text.
SyncInit ==
    /\ InitPlayer
    /\ InitSessions
    /\ InitLogger
    /\ store \in {[d \in TranscriptDocIds |-> content] : content \in GeneratedContents}

\* One load of the first recording's transcript, then playback and seeks on it.
SyncNext ==
    \/ SetDocuments(DocsVaOnly)
    \/ renderedCallback
    \/ \E k \in 1..Len(inflight) : FetchResolved(k)
    \/ \E k \in 1..Len(inflight) : ParseResolved(k)
    \/ \E t \in Times, outside \in BOOLEAN : handleTimeUpdate(t, outside)
    \/ \E k \in 1..Len(transcriptEntries) : handleTranscriptClick(k)

SyncSpec == SyncInit /\ [][SyncNext]_vars

\* ------------------------------------------------- pairing of any document set
\* The documents, with intro.wav, a second audio file without the _2 marker.
DocPool ==
    {DocCall, DocCall2,
     Doc("a3", <<"i", "n", "t", "r", "o", ".", "w", "a", "v">>, <<"W", "A", "V">>),
     DocVa, DocRt}

\* Every list of distinct documents of the pool, in every order.
PairDocumentSets ==
    {ds \in UNION {[1..n -> DocPool] : n \in 0..Cardinality(DocPool)} :
        \A i, j \in 1..Len(ds) : ds[i] = ds[j] => i = j}

\* The parent assigns one document list; then selections and loads.
PairNext ==
    \/ \E value \in PairDocumentSets : ~documentsProcessed /\ SetDocuments(value)
    \/ renderedCallback
    \/ \E r \in Range(recordings) : handleRecordingSelect(r.id)
    \/ \E k \in 1..Len(inflight) : FetchResolved(k)
    \/ \E k \in 1..Len(inflight) : ParseResolved(k)

PairSpec == Init /\ [][PairNext]_vars

\* ------------------------------------------- matching of dated recordings
\* The documents, with call_2024.mp3, a recording whose name carries a date
\* after an underscore.
MatchPool ==
    {DocCall, DocCall2,
     Doc("a4", <<"c", "a", "l", "l", "_", "2", "0", "2", "4", ".", "m", "p", "3">>,
         <<"m", "p", "3">>),
     DocVa, DocRt}

\* Every list of distinct documents of the pool, in every order.
MatchDocumentSets ==
    {ds \in UNION {[1..n -> MatchPool] : n \in 0..Cardinality(MatchPool)} :
        \A i, j \in 1..Len(ds) : ds[i] = ds[j] => i = j}

\* The parent assigns one document list; then selections and loads.
MatchNext ==
    \/ \E value \in MatchDocumentSets : ~documentsProcessed /\ SetDocuments(value)
    \/ renderedCallback
    \/ \E r \in Range(recordings) : handleRecordingSelect(r.id)
    \/ \E k \in 1..Len(inflight) : FetchResolved(k)
    \/ \E k \in 1..Len(inflight) : ParseResolved(k)

MatchSpec == Init /\ [][MatchNext]_vars

\* --------------------------------------------- audio files with va_ in the name
\* The documents, with va_call.mp3, a recording of the virtual agent leg named
\* after it.
RolePool ==
    {DocCall, DocCall2,
     Doc("a5", <<"v", "a", "_", "c", "a", "l", "l", ".", "m", "p", "3">>,
         <<"m", "p", "3">>),
     DocVa}

\* Every list of distinct documents of the pool, in every order.
RoleDocumentSets ==
    {ds \in UNION {[1..n -> RolePool] : n \in 0..Cardinality(RolePool)} :
        \A i, j \in 1..Len(ds) : ds[i] = ds[j] => i = j}

\* The parent assigns one document list; then selections and loads.  The
\* content source holds text for the transcript documents only: a fetch for
\* any other document can only be rejected.
RoleNext ==
    \/ \E value \in RoleDocumentSets : ~documentsProcessed /\ SetDocuments(value)
    \/ renderedCallback
    \/ \E r \in Range(recordings) : handleRecordingSelect(r.id)
    \/ \E k \in 1..Len(inflight) :
          inflight[k].documentId \in DOMAIN store /\ FetchResolved(k)
    \/ \E k \in 1..Len(inflight) : ParseResolved(k)
    \/ \E k \in 1..Len(inflight) : LoadRejected(k)

RoleSpec == Init /\ [][RoleNext]_vars

\* The same, with the loadedmetadata event of the audio element.
MetadataNext ==
    \/ RoleNext
    \/ handleLoadedMetadata

MetadataSpec == Init /\ [][MetadataNext]_vars

\* ------------------------------------------------- loads that always settle
\* A document list without any audio file.
DocsNoAudio == <<DocVa, DocRt>>

LiveDocumentSets == DocumentSets \cup {DocsNoAudio}

\* A suspended loadTranscript call goes on: its awaited promise settles.
Settle ==
    \E k \in 1..Len(inflight) : LoadRejected(k) \/ FetchResolved(k) \/ ParseResolved(k)

\* The first assignment of the documents property by the parent's template.
FirstAssignment ==
    \E value \in LiveDocumentSets : ~documentsProcessed /\ SetDocuments(value)

LiveNext ==
    \/ \E value \in LiveDocumentSets : SetDocuments(value)
    \/ renderedCallback
    \/ \E r \in Range(recordings) : handleRecordingSelect(r.id)
    \/ \E k \in 1..Len(inflight) : FetchResolved(k)
    \/ \E k \in 1..Len(inflight) : ParseResolved(k)
    \/ \E k \in 1..Len(inflight) : LoadRejected(k)

\* The parent assigns documents, and every awaited promise settles.
LiveSpec ==
    Init /\ [][LiveNext]_vars /\ WF_vars(FirstAssignment) /\ WF_vars(Settle)

\* ------------------------------------------------------------ seek requests
\* The first recording loaded, then clicks on the progress bar and on entries,
\* before and after the audio's metadata has arrived.
SeekNext ==
    \/ SetDocuments(DocsPair)
    \/ renderedCallback
    \/ \E k \in 1..Len(inflight) : FetchResolved(k)
    \/ \E k \in 1..Len(inflight) : ParseResolved(k)
    \/ handleLoadedMetadata
    \/ \E clientX \in 0..MaxClientX, left \in 0..1, width \in 1..MaxWidth :
          handleProgressClick(clientX, left, width)
    \/ \E k \in 1..Len(transcriptEntries) : handleTranscriptClick(k)

SeekSpec == Init /\ [][SeekNext]_vars

\* The seeks, with the skip buttons.
SkipNext ==
    \/ SeekNext
    \/ \E t \in Times : handleSkipBack(t)
    \/ \E t \in Times : handleSkipForward(t)

SkipSpec == Init /\ [][SkipNext]_vars

\* ------------------------------------------------------- parser on any text
ParseMaxLines == 3

\* Lines of the texts handed to the parser: every kind of skipped line, a line
\* with a malformed time, and entries of every speaker label.
ParseContents ==
    LET lines == {HeaderLine, SeparatorLine, BlankLine, NoiseLine, MalformedLine}
                 \cup {EntryLine(sec, who) : sec \in 0..1, who \in LineLabels}
    IN UNION {[1..n -> lines] : n \in 0..ParseMaxLines}

ParseInit ==
    /\ InitPlayer
    /\ InitSessions
    /\ InitLogger
    /\ store \in {[d \in TranscriptDocIds |-> content] : content \in ParseContents}

\* One load of the first recording's transcript.
ParseNext ==
    \/ SetDocuments(DocsVaOnly)
    \/ renderedCallback
    \/ \E k \in 1..Len(inflight) : FetchResolved(k)
    \/ \E k \in 1..Len(inflight) : ParseResolved(k)

ParseSpec == ParseInit /\ [][ParseNext]_vars

\* ------------------------------------------------- the session list on a case
\* Any sequence of emissions of the wire adapter: a list, an error, or neither.
SessionNext ==
    \/ \E data \in SessionLists : wiredSessions(TRUE, data, NoError)
    \/ \E err \in WireErrors : wiredSessions(FALSE, <<>>, err)
    \/ wiredSessions(FALSE, <<>>, NoError)

SessionSpec == Init /\ [][SessionNext]_vars

\* ------------------------------------------------------ the logger in use
\* Any sequence of calls of the logger instances and of the Logger object;
\* configure is handed any of the keys, each with any of its values, and
\* setLevel any level or a name that is none.
LoggerNext ==
    \/ \E c \in Loggers, level \in {"debug", "info", "warn", "error"} : log(c, level)
    \/ \E c \in Loggers : success(c)
    \/ \E c \in Loggers : group(c)
    \/ \E c \in Loggers : groupOpen(c)
    \/ \E c \in Loggers : groupEnd(c)
    \/ \E c \in Loggers : time(c, "documentProcessing")
    \/ \E c \in Loggers : timeEnd(c, "documentProcessing")
    \/ \E c \in Loggers : table(c)
    \/ \E c \in Loggers : lifecycle(c)
    \/ \E c \in Loggers, hasParams, hasResult \in BOOLEAN : apex(c, hasParams, hasResult)
    \/ \E keys \in SUBSET DOMAIN InitialConfig,
          on, timing, grouping \in BOOLEAN, level \in DOMAIN LOG_LEVELS :
             configure(keys, [ENABLED |-> on, MIN_LEVEL |-> level,
                              ENABLE_TIMING |-> timing, ENABLE_GROUPING |-> grouping])
    \/ enable
    \/ disable
    \/ \E level \in DOMAIN LOG_LEVELS \cup {"verbose"} : setLevel(level)

LoggerSpec == Init /\ [][LoggerNext]_vars

\* ------------------------------------------------------------------ claims
\* The transcript document paired with the selected recording, Null when there
\* is no selection or no paired document (selectedRec.transcriptDoc).
SelectedTranscriptDoc ==
    LET at == FindRecording(recordings, selectedRecordingId)
    IN IF at = 0 THEN Null ELSE recordings[at].transcriptDoc.documentId

\* get noTranscriptAvailable
noTranscriptAvailable == ~isLoadingTranscript /\ Len(transcriptEntries) = 0

\* seconds never decreases along the entries.
SecondsNonDecreasing(entries) ==
    \A i \in 1..(Len(entries) - 1) : entries[i].seconds <= entries[i + 1].seconds

\* The 0-based positions whose interval holds t.
IntervalsHolding(entries, t) ==
    {i \in 0..(Len(entries) - 1) : InEntryInterval(entries, i, t)}

\* The 0-based positions whose entry starts at or before t.
StartedBy(entries, t) ==
    {i \in 0..(Len(entries) - 1) : entries[i + 1].seconds * TicksPerSecond <= t}

\* C1, as stated: after a time update on a non-empty entry sequence,
\* currentEntryIndex is -1 when currentTime is below the first entry's seconds,
\* and otherwise is an index whose interval holds currentTime.
C1_AsStated ==
    (effects.event /\ transcriptEntries # <<>>) =>
        IF currentTime < transcriptEntries[1].seconds * TicksPerSecond
        THEN currentEntryIndex = -1
        ELSE /\ currentEntryIndex \in 0..(Len(transcriptEntries) - 1)
             /\ InEntryInterval(transcriptEntries, currentEntryIndex, currentTime)

\* C1, amended: after a time update on a non-empty entry sequence,
\* currentEntryIndex is the smallest index whose interval holds currentTime, -1
\* when there is none; when seconds is non-decreasing that index is the only
\* one, it is the last entry that starts at or before currentTime (a time on a
\* boundary selects the later entry, a time just below it the earlier one), and
\* it is -1 exactly when currentTime is below the first entry's seconds.
C1_ActiveEntryRule ==
    (effects.event /\ transcriptEntries # <<>>) =>
        LET hits == IntervalsHolding(transcriptEntries, currentTime)
            started == StartedBy(transcriptEntries, currentTime)
        IN /\ IF hits = {} THEN currentEntryIndex = -1
              ELSE currentEntryIndex \in hits /\ \A j \in hits : currentEntryIndex <= j
           /\ SecondsNonDecreasing(transcriptEntries) =>
                /\ hits \subseteq {currentEntryIndex}
                /\ (currentEntryIndex = -1) <=>
                     (currentTime < transcriptEntries[1].seconds * TicksPerSecond)
                /\ IF started = {} THEN currentEntryIndex = -1
                   ELSE currentEntryIndex \in started
                        /\ \A j \in started : j <= currentEntryIndex

\* C1 witness: a time update has left the player exactly on the boundary of a
\* later entry of a non-decreasing sequence, with the entry before it starting
\* earlier.
C1_Witness ==
    /\ effects.event
    /\ Len(transcriptEntries) >= 2
    /\ SecondsNonDecreasing(transcriptEntries)
    /\ currentEntryIndex >= 1
    /\ currentTime = transcriptEntries[currentEntryIndex + 1].seconds * TicksPerSecond
    /\ transcriptEntries[currentEntryIndex].seconds
         < transcriptEntries[currentEntryIndex + 1].seconds

\* C2, as stated: the entries shown are never those of a transcript other than
\* the selected recording's.
C2_StaleResponseGuard ==
    transcriptEntries # <<>> => entriesDoc = SelectedTranscriptDoc

\* C3, as stated: when every request resolves, then once no loadTranscript call
\* is outstanding the entries shown are the parsed entries of the selected
\* recording's transcript (highlighting apart).
C3_LastSelectionWins ==
    (inflight = <<>> /\ SelectedTranscriptDoc # Null) =>
        Highlight(transcriptEntries, -1) =
            DecorateEntries(parseTranscript(store[SelectedTranscriptDoc],
                               extractStartTime(store[SelectedTranscriptDoc])))

\* C4, as stated: while a loadTranscript call made for the selected recording is
\* outstanding, isLoadingTranscript is true and noTranscriptAvailable is false.
C4_LoadingWhileInFlight ==
    (\E k \in 1..Len(inflight) : inflight[k].forRecording = selectedRecordingId) =>
        isLoadingTranscript /\ ~noTranscriptAvailable

\* C5: right after selectRecording, currentTime is 0, currentEntryIndex is -1 and
\* transcriptEntries is empty; the request for the new recording's transcript,
\* when it has one, is the last one sent, and was sent with no entry shown.
C5_ResetOnSelect ==
    effects.selected =>
        /\ currentTime = 0
        /\ currentEntryIndex = -1
        /\ transcriptEntries = <<>>
        /\ SelectedTranscriptDoc # Null =>
             /\ inflight # <<>>
             /\ inflight[Len(inflight)].phase = "fetch"
             /\ inflight[Len(inflight)].documentId = SelectedTranscriptDoc
             /\ inflight[Len(inflight)].forRecording = selectedRecordingId
             /\ inflight[Len(inflight)].entriesAtDispatch = 0

\* C5 witness: the user has switched to the second recording while the first
\* recording's load was outstanding.
C5_Witness ==
    /\ effects.selected
    /\ Len(recordings) >= 2
    /\ selectedRecordingId = recordings[2].id
    /\ Len(inflight) = 2
    /\ inflight[1].forRecording = recordings[1].id

\* C6, as stated: while the selected recording has no paired transcript,
\* transcriptEntries is empty.
C6_NoTranscriptNoEntries ==
    (selectedRecordingId # Null /\ SelectedTranscriptDoc = Null) =>
        transcriptEntries = <<>>

\* C7: a time update whose computed index equals the stored one changes neither
\* currentEntryIndex nor any entry (so no highlight class) and does not call
\* scrollToEntry; and the same position fed twice in a row has no highlight or
\* scroll effect the second time.
C7_RedundantUpdateIsQuiet ==
    [][effects'.event =>
         /\ (NewActiveIndex(transcriptEntries, currentTime') = currentEntryIndex) =>
              /\ currentEntryIndex' = currentEntryIndex
              /\ transcriptEntries' = transcriptEntries
              /\ ~effects'.highlight
              /\ ~effects'.scrollChecked
              /\ ~effects'.scrolled
         /\ (effects.event /\ currentTime' = currentTime) =>
              ~effects'.highlight /\ ~effects'.scrollChecked /\ ~effects'.scrolled
      ]_vars

\* C7 witness: a time update has run with an entry already highlighted and has
\* recomputed nothing.
C7_Witness ==
    /\ effects.event
    /\ ~effects.highlight
    /\ currentEntryIndex >= 0
    /\ currentEntryIndex < Len(transcriptEntries)
    /\ transcriptEntries[currentEntryIndex + 1].entryClass = getEntryClass(currentEntryIndex, TRUE)

\* C8, as stated: for every time, at most one interval holds it, and exactly
\* one when the time is not below the first entry's seconds.
C8_AsStated ==
    transcriptEntries # <<>> =>
        \A t \in Times :
            /\ Cardinality(IntervalsHolding(transcriptEntries, t)) <= 1
            /\ t >= transcriptEntries[1].seconds * TicksPerSecond =>
                 Cardinality(IntervalsHolding(transcriptEntries, t)) = 1

\* C8, amended: every time not below the first entry's seconds lies in at least
\* one interval (no gap); when seconds is non-decreasing no time lies in two
\* intervals and no time below the first entry's seconds lies in any.
C8_IntervalCover ==
    transcriptEntries # <<>> =>
        \A t \in Times :
            /\ t >= transcriptEntries[1].seconds * TicksPerSecond =>
                 IntervalsHolding(transcriptEntries, t) # {}
            /\ SecondsNonDecreasing(transcriptEntries) =>
                 /\ Cardinality(IntervalsHolding(transcriptEntries, t)) <= 1
                 /\ t < transcriptEntries[1].seconds * TicksPerSecond =>
                      IntervalsHolding(transcriptEntries, t) = {}

\* C8 witness: a transcript of three entries at increasing seconds is loaded and
\* a time update has selected its middle entry.
C8_Witness ==
    /\ Len(transcriptEntries) = 3
    /\ transcriptEntries[1].seconds < transcriptEntries[2].seconds
    /\ transcriptEntries[2].seconds < transcriptEntries[3].seconds
    /\ effects.event
    /\ currentEntryIndex = 1

\* C9, as stated: of two time updates in a row, the second at the same or a
\* later position, the second never leaves a smaller currentEntryIndex.
C9_AsStated ==
    [][(effects.event /\ effects'.event /\ currentTime' >= currentTime) =>
         currentEntryIndex' >= currentEntryIndex]_vars

\* C9, amended: the same, for an entry sequence whose seconds is non-decreasing.
C9_ForwardPlayback ==
    [][(/\ effects.event
        /\ effects'.event
        /\ currentTime' >= currentTime
        /\ SecondsNonDecreasing(transcriptEntries)) =>
         currentEntryIndex' >= currentEntryIndex]_vars

\* C9 witness: playback of a non-decreasing transcript has reached its last
\* entry, which is not its first, at a position past the start.
C9_Witness ==
    /\ effects.event
    /\ SecondsNonDecreasing(transcriptEntries)
    /\ Len(transcriptEntries) >= 2
    /\ currentEntryIndex = Len(transcriptEntries) - 1
    /\ currentTime > transcriptEntries[Len(transcriptEntries)].seconds * TicksPerSecond

\* C10, as stated: the index a time update leaves is a function of the entry
\* sequence and the position alone: the one the scan gives, whatever index was
\* stored before.
C10_IndexFromTimeAlone ==
    effects.event => currentEntryIndex = NewActiveIndex(transcriptEntries, currentTime)

\* C11: a click on the progress bar, at any horizontal position, writes a
\* position: the click fraction times the duration when that lies in
\* [0, duration], 0 when it lies below, the duration when it lies above; so the
\* position written is never outside [0, duration].
C11_ProgressClickClamped ==
    [][\A clientX \in 0..MaxClientX, left \in 0..1, width \in 1..MaxWidth :
          (audioElement /\ handleProgressClick(clientX, left, width)) =>
              LET dx == clientX - left
              IN /\ effects'.seekBy = "handleProgressClick"
                 /\ effects'.seek >= 0
                 /\ effects'.seek <= duration * effects'.seekDen
                 /\ IF dx < 0 THEN effects'.seek = 0
                    ELSE IF dx > width THEN effects'.seek = duration * effects'.seekDen
                    ELSE effects'.seek * width = dx * duration * effects'.seekDen
      ]_vars

\* C11 witness: with the duration known, a click right of the bar has written
\* the duration.
C11_Witness ==
    /\ effects.seekBy = "handleProgressClick"
    /\ duration > 0
    /\ effects.seek = duration * effects.seekDen

\* C12, as stated: the position handleTranscriptClick writes is never greater
\* than the duration.
C12_EntryClickClamped ==
    effects.seekBy = "handleTranscriptClick" =>
        effects.seek >= 0 /\ effects.seek <= duration * effects.seekDen

\* C13: scrollIntoView is called only by a time update, and only when
\* autoScroll is on, the active index has just changed, the new index is not
\* negative and the entry's rectangle is not within the container's; a step
\* taken with autoScroll off never scrolls, and neither does the toggle itself.
C13_ScrollOnlyWhenNeeded ==
    [][/\ effects'.scrolled =>
            /\ effects'.event
            /\ autoScroll /\ autoScroll'
            /\ currentEntryIndex' # currentEntryIndex
            /\ currentEntryIndex' >= 0
            /\ effects'.highlight /\ effects'.scrollChecked
            /\ \A t \in Times, outside \in BOOLEAN :
                  handleTimeUpdate(t, outside) => outside
       /\ autoScroll' # autoScroll => ~effects'.scrolled
      ]_vars

\* C13 witness: with autoScroll on, a time update has moved the highlight to an
\* entry outside the visible region and has scrolled to it.
C13_Witness ==
    /\ effects.scrolled
    /\ autoScroll
    /\ currentEntryIndex >= 1

\* C14: when the request a loadTranscript call waits for is rejected, the call
\* ends with transcriptEntries empty and isLoadingTranscript false, so that the
\* no-transcript state is displayed, and selectedRecordingId, recordings,
\* isPlaying, currentTime and duration are as before; the handlers go on
\* working afterwards.
C14_FailureIsContained ==
    [][(\E k \in 1..Len(inflight) :
           inflight' = RemoveAt(inflight, k) /\ entriesDoc' = Null) =>
         /\ transcriptEntries' = <<>>
         /\ ~isLoadingTranscript'
         /\ noTranscriptAvailable'
         /\ selectedRecordingId' = selectedRecordingId
         /\ recordings' = recordings
         /\ isPlaying' = isPlaying
         /\ currentTime' = currentTime
         /\ duration' = duration
         /\ audioPaused' = audioPaused
      ]_vars

\* C14 witness: the selected recording has a transcript with text, no call is
\* outstanding and no entries are shown, which only a rejected request leaves
\* behind; the audio is playing at a position past the start.
C14_Witness ==
    /\ SelectedTranscriptDoc # Null
    /\ store[SelectedTranscriptDoc] # <<>>
    /\ inflight = <<>>
    /\ entriesDoc = Null
    /\ transcriptEntries = <<>>
    /\ ~isLoadingTranscript
    /\ isPlaying
    /\ duration > 0
    /\ currentTime > 0

\* C15, as stated: no transcript document is paired with more than one
\* recording.
C15_AtMostOnePairing ==
    \A d \in TranscriptDocIds :
        Cardinality({i \in 1..Len(recordings) :
                       recordings[i].transcriptDoc.documentId = d}) <= 1

\* The documents of the list assigned whose lower-cased title marks them as the
\* va transcript (secondary FALSE) or as the rt transcript (secondary TRUE).
TranscriptsOfKind(secondary) ==
    {d \in Range(documents) :
        IF secondary
        THEN IsRtTitle(toLowerCase(d.title)) /\ ~IsVaTitle(toLowerCase(d.title))
        ELSE IsVaTitle(toLowerCase(d.title))}

SecondsOfDay(ts) == ts[1] * 3600 + ts[2] * 60 + ts[3]

\* start is the time after the first "[" followed by dd:dd:dd in content, and
\* 00:00:00 when content has none.
IsFirstBracketedTime(content, start) ==
    LET bracketed == {i \in 1..Len(content) : content[i].kind \in {"entry", "stamp"}}
    IN IF bracketed = {} THEN start = <<0, 0, 0>>
       ELSE \E i \in bracketed :
               /\ \A j \in 1..(i - 1) : j \notin bracketed
               /\ start = content[i].ts

\* C17: the start time a loadTranscript call passes to parseTranscript, and the
\* one kept in recordingStartTime, is the first bracketed time of the text
\* fetched, whatever lines stand before it, and 00:00:00 when there is none.
C17_StartTimeExtraction ==
    /\ \A k \in 1..Len(inflight) :
          inflight[k].phase = "parse" =>
              /\ inflight[k].content = store[inflight[k].documentId]
              /\ IsFirstBracketedTime(inflight[k].content, inflight[k].startTime)
              /\ recordingStartTime = inflight[k].startTime
    /\ entriesDoc # Null =>
          IsFirstBracketedTime(store[entriesDoc], recordingStartTime)

\* C17 witness: a text that begins with a header line and whose first bracketed
\* time stands on a line that is no entry has been fetched, and its start time
\* is that line's.
C17_Witness ==
    \E k \in 1..Len(inflight) :
        /\ inflight[k].phase = "parse"
        /\ Len(inflight[k].content) >= 3
        /\ inflight[k].content[1] = HeaderLine
        /\ inflight[k].content[2] = StampLine(0)
        /\ inflight[k].content[3] = EntryLine(1, SpeakerAgent)
        /\ inflight[k].startTime = <<10, 0, 0>>

\* C19: every entry shown has seconds equal to its line's time minus the start
\* time when that is not negative, and 0 otherwise.
C19_OffsetsClamped ==
    entriesDoc # Null =>
        \A i \in 1..Len(transcriptEntries) :
            LET diff == SecondsOfDay(transcriptEntries[i].timestamp)
                          - SecondsOfDay(recordingStartTime)
            IN /\ transcriptEntries[i].seconds >= 0
               /\ transcriptEntries[i].seconds = (IF diff < 0 THEN 0 ELSE diff)

\* C19 witness: an entry whose line's time precedes the start time is shown
\* with offset 0, before an entry with a positive offset.
C19_Witness ==
    /\ entriesDoc # Null
    /\ Len(transcriptEntries) = 3
    /\ SecondsOfDay(transcriptEntries[2].timestamp) < SecondsOfDay(recordingStartTime)
    /\ transcriptEntries[2].seconds = 0
    /\ transcriptEntries[3].seconds > 0

\* C20, as stated: seconds never decreases along the entries parsed.
C20_AsStated ==
    entriesDoc # Null => SecondsNonDecreasing(transcriptEntries)

\* C20, amended: the entries parsed follow the matched lines of the text in
\* their order, and seconds never decreases along them when the times of day
\* on those lines never decrease.
C20_MonotoneOnOrderedText ==
    entriesDoc # Null =>
        LET lines == MatchedLines(store[entriesDoc])
        IN /\ Len(transcriptEntries) = Len(lines)
           /\ \A i \in 1..Len(lines) : transcriptEntries[i].timestamp = lines[i].ts
           /\ (\A i \in 1..(Len(lines) - 1) :
                  SecondsOfDay(lines[i].ts) <= SecondsOfDay(lines[i + 1].ts)) =>
                SecondsNonDecreasing(transcriptEntries)

\* C20 witness: three entries from lines at increasing times are shown, at
\* increasing offsets.
C20_Witness ==
    /\ entriesDoc # Null
    /\ Len(transcriptEntries) = 3
    /\ \A i \in 1..2 :
          /\ SecondsOfDay(transcriptEntries[i].timestamp)
               < SecondsOfDay(transcriptEntries[i + 1].timestamp)
          /\ transcriptEntries[i].seconds < transcriptEntries[i + 1].seconds

\* C18: a selection of a recording with a paired transcript sends exactly one
\* getTranscriptContent request, for that transcript's document, and a
\* selection of a recording without one sends none; no other step sends one;
\* and a call waits for parseTranscript only after its own request has resolved
\* with text that is not empty, having passed that text and the start time
\* extracted from it.
C18_OneFetchThenParse ==
    [][/\ effects'.selected =>
            IF SelectedTranscriptDoc' # Null
            THEN /\ Len(inflight') = Len(inflight) + 1
                 /\ SubSeq(inflight', 1, Len(inflight)) = inflight
                 /\ inflight'[Len(inflight')].phase = "fetch"
                 /\ inflight'[Len(inflight')].documentId = SelectedTranscriptDoc'
            ELSE inflight' = inflight
       /\ ~effects'.selected => Len(inflight') <= Len(inflight)
       /\ \A k \in 1..Len(inflight') :
            inflight'[k].phase = "parse" =>
                /\ inflight'[k].content # <<>>
                /\ inflight'[k].content = store[inflight'[k].documentId]
                /\ IsFirstBracketedTime(inflight'[k].content, inflight'[k].startTime)
                /\ \E j \in 1..Len(inflight) :
                      \/ inflight[j] = inflight'[k]
                      \/ /\ inflight[j].phase = "fetch"
                         /\ inflight[j].documentId = inflight'[k].documentId
                         /\ Len(inflight') = Len(inflight)
      ]_vars

\* C18 witness: the first recording's call waits for parseTranscript with its
\* text while the request for the second recording's transcript, selected
\* since, is outstanding.
C18_Witness ==
    /\ Len(inflight) = 2
    /\ inflight[1].phase = "parse"
    /\ inflight[2].phase = "fetch"
    /\ inflight[2].documentId = SelectedTranscriptDoc
    /\ inflight[1].documentId # inflight[2].documentId

\* ---------------------------------------------------------- parser contract
\* A line of the entry form whose bracketed time is a time of day.
IsTimedEntry(l) ==
    l.kind = "entry" /\ l.ts[1] \in 0..23 /\ l.ts[2] \in 0..59 /\ l.ts[3] \in 0..59

\* C21: the k-th entry shown carries entryIndex k (0-based); the entries are as
\* many as the lines of the entry form with a time of day, so header,
\* separator, blank and other lines take no index.
C21_IndicesContiguous ==
    entriesDoc # Null =>
        /\ Len(transcriptEntries)
             = Cardinality({i \in 1..Len(store[entriesDoc]) :
                               IsTimedEntry(store[entriesDoc][i])})
        /\ \A k \in 1..Len(transcriptEntries) :
              transcriptEntries[k].entryIndex = k - 1

\* Two entries shown, a skipped line standing between their lines in the text.
C21_Witness ==
    /\ entriesDoc # Null
    /\ Len(transcriptEntries) = 2
    /\ transcriptEntries[2].entryIndex = 1
    /\ \E i, j, k \in 1..Len(store[entriesDoc]) :
          /\ i < j /\ j < k
          /\ IsTimedEntry(store[entriesDoc][i])
          /\ store[entriesDoc][j].kind \in {"header", "separator", "blank", "noise"}
          /\ IsTimedEntry(store[entriesDoc][k])

ExpectedSpeakerClass(label) ==
    CASE label \in {SpeakerBot, SpeakerUpperBot, SpeakerBotCaller} ->
            "entry-speaker speaker-bot"
      [] label \in {SpeakerCustomer, SpeakerCaller} ->
            "entry-speaker speaker-customer"
      [] OTHER -> "entry-speaker speaker-agent"

\* C24: every label, the empty and the missing one included, gets exactly one
\* of the three tags: bot for "virtual agent" or "bot" in any case, else
\* customer for "customer" or "caller", else agent; the entries shown carry the
\* tag of their label and the parser's fields as the parser gave them.
C24_SpeakerClassification ==
    /\ \A label \in LineLabels \cup {<<>>, MissingLabel} :
          getSpeakerClass(label) = ExpectedSpeakerClass(label)
    /\ entriesDoc # Null =>
          LET parsed == parseTranscript(store[entriesDoc], recordingStartTime)
          IN \A k \in 1..Len(transcriptEntries) :
                /\ transcriptEntries[k].speakerClass
                     = ExpectedSpeakerClass(transcriptEntries[k].speaker)
                /\ transcriptEntries[k].speaker = parsed[k].speaker
                /\ transcriptEntries[k].timestamp = parsed[k].timestamp
                /\ transcriptEntries[k].seconds = parsed[k].seconds
                /\ transcriptEntries[k].entryIndex = parsed[k].entryIndex

\* Three entries shown, one of each tag, the bot's and the customer's labels in
\* upper case.
C24_Witness ==
    /\ entriesDoc # Null
    /\ Len(transcriptEntries) = 3
    /\ transcriptEntries[1].speaker = SpeakerUpperBot
    /\ transcriptEntries[1].speakerClass = "entry-speaker speaker-bot"
    /\ transcriptEntries[2].speaker = SpeakerCaller
    /\ transcriptEntries[2].speakerClass = "entry-speaker speaker-customer"
    /\ transcriptEntries[3].speaker = SpeakerAgent
    /\ transcriptEntries[3].speakerClass = "entry-speaker speaker-agent"

\* ------------------------------------------------------- active index range
\* C25: in every reachable state currentEntryIndex is -1 or an index into the
\* transcriptEntries of that state.
C25_IndexInRange ==
    \/ currentEntryIndex = -1
    \/ (0 <= currentEntryIndex /\ currentEntryIndex < Len(transcriptEntries))

\* ------------------------------------------------ frame of a redundant update
\* C26, as stated: a time update whose computed index equals the stored index
\* dispatches no event and changes no field.
C26_AsStated ==
    [][\A t \in Times, outside \in BOOLEAN :
          (/\ handleTimeUpdate(t, outside)
           /\ NewActiveIndex(transcriptEntries, t) = currentEntryIndex) =>
             /\ ~effects'.event
             /\ currentTime' = currentTime
             /\ currentEntryIndex' = currentEntryIndex
             /\ transcriptEntries' = transcriptEntries
      ]_vars

\* C26: a time update whose computed index equals the stored index leaves the
\* index, the entries and every other field as they were and does no highlight
\* and no scroll; it stores the position read as currentTime and dispatches
\* the playbackupdate event.
C26_RedundantUpdateFrame ==
    [][\A t \in Times, outside \in BOOLEAN :
          (/\ handleTimeUpdate(t, outside)
           /\ NewActiveIndex(transcriptEntries, t) = currentEntryIndex) =>
             /\ effects'.event
             /\ currentTime' = t
             /\ ~effects'.highlight /\ ~effects'.scrollChecked /\ ~effects'.scrolled
             /\ effects'.seek = -1
             /\ UNCHANGED <<documents, documentsProcessed, recordings,
                            selectedRecordingId, transcriptEntries,
                            isLoadingTranscript, isLoadingRecordings, duration,
                            isPlaying, autoScroll, currentEntryIndex,
                            audioElement, recordingStartTime, audioPaused,
                            audioSrc, inflight>>
      ]_vars

\* A time update has moved the position within the active entry's interval:
\* the event went out, nothing was highlighted.
C26_Witness ==
    /\ effects.event
    /\ ~effects.highlight
    /\ currentEntryIndex >= 0
    /\ currentEntryIndex < Len(transcriptEntries)
    /\ currentTime > transcriptEntries[currentEntryIndex + 1].seconds * TicksPerSecond
    /\ NewActiveIndex(transcriptEntries, currentTime) = currentEntryIndex

\* ------------------------------------------------------- empty transcripts
\* C27: when a load of the selected recording's transcript gets empty content,
\* or content of which no line matches, the call ends with transcriptEntries
\* empty, isLoadingTranscript false and noTranscriptAvailable true.
C27_EmptyLoadEndsEmpty ==
    [][\A k \in 1..Len(inflight) :
          (/\ inflight[k].forRecording = selectedRecordingId
           /\ \/ FetchResolved(k) /\ store[inflight[k].documentId] = <<>>
              \/ /\ ParseResolved(k)
                 /\ parseTranscript(inflight[k].content, inflight[k].startTime) = <<>>) =>
             /\ transcriptEntries' = <<>>
             /\ ~isLoadingTranscript'
             /\ noTranscriptAvailable'
      ]_vars

\* ------------------------------------------------- documents set or updated
\* C30: after each assignment to documents the recordings are those of the
\* audio files of the list just assigned, and one of them is selected when
\* there is any, whatever was assigned before.
C30_ProcessedOnEveryAssignment ==
    [][\A value \in DocumentSets :
          SetDocuments(value) =>
             /\ {recordings'[i].id : i \in 1..Len(recordings')}
                  = {d.documentId : d \in {x \in Range(value) : IsAudio(x)}}
             /\ Len(recordings') > 0 =>
                  selectedRecordingId' \in {recordings'[i].id : i \in 1..Len(recordings')}
      ]_vars

\* ------------------------------------------------------------ session list
\* C28: when the wire adapter delivers a list, activeSections holds the one
\* session's id if the list has exactly one session and is empty if it has
\* several.
C28_ExpandedIffSingle ==
    [][\A data \in SessionLists :
          wiredSessions(TRUE, data, NoError) =>
             /\ Len(data) = 1 => activeSections' = <<data[1].sessionId>>
             /\ Len(data) > 1 => activeSections' = <<>>
      ]_vars

\* The display states of the component's template: loading, error, no calls,
\* calls.
ExactlyOneDisplayState ==
    LET DisplayStates == <<isLoading, error.present, hasNoCalls, hasCalls>>
    IN Cardinality({i \in 1..4 : DisplayStates[i]}) = 1

\* C29: exactly one of loading, error, no-calls and has-calls holds from the
\* start and after every emission; a delivered list clears the error and shows
\* has-calls iff it is not empty, no-calls iff it is; an error empties the
\* sessions and shows only the error, with body.message when there is one and
\* the generic message otherwise.
C29_OneDisplayState ==
    [][/\ ExactlyOneDisplayState
       /\ ExactlyOneDisplayState'
       /\ \A data \in SessionLists :
             wiredSessions(TRUE, data, NoError) =>
                /\ ~error'.present
                /\ hasCalls' <=> Len(data) > 0
                /\ hasNoCalls' <=> Len(data) = 0
                /\ [k \in 1..Len(sessions') |-> sessions'[k].sessionId]
                     = [k \in 1..Len(data) |-> data[k].sessionId]
       /\ \A err \in WireErrors :
             wiredSessions(FALSE, <<>>, err) =>
                /\ sessions' = <<>>
                /\ error'.present /\ ~isLoading' /\ ~hasCalls' /\ ~hasNoCalls'
                /\ errorMessage' = IF err = ErrorWithMessage
                                   THEN <<"T", "e", "s", "t">>
                                   ELSE GenericErrorMessage
      ]_vars

\* An error carrying a message is shown after a list of one session had been
\* (its section is still the active one).
C29_Witness ==
    /\ error = ErrorWithMessage
    /\ sessions = <<>>
    /\ activeSections # <<>>
    /\ ~isLoading
    /\ errorMessage = <<"T", "e", "s", "t">>

\* ------------------------------------------------ matching as the README has it
\* The file name, its extension left off, ends with _2.
HasSuffix2(title) ==
    \E i \in 3..Len(title) :
       /\ title[i] = "."
       /\ \A j \in (i + 1)..Len(title) : title[j] # "."
       /\ title[i - 2] = "_"
       /\ title[i - 1] = "2"

\* C31: a recording whose file name has no _2 suffix is primary, matched to
\* the va transcript if to any; a recording is secondary, matched to the rt
\* transcript if to any, only when its name ends with _2.
C31_MatchingBySuffix ==
    \A i \in 1..Len(recordings) :
       LET r == recordings[i]
           matched == r.transcriptDoc
       IN IF HasSuffix2(r.audioTitle)
          THEN /\ r.type = "agent"
               /\ matched # NullDoc => IsRtTitle(toLowerCase(matched.title))
          ELSE /\ r.type # "agent"
               /\ matched # NullDoc => IsVaTitle(toLowerCase(matched.title))

\* ------------------------------------------------------ highlight consistency
\* C32: in every reachable state an entry carries the active-entry class iff
\* its position equals currentEntryIndex.
C32_HighlightMatchesIndex ==
    \A k \in 1..Len(transcriptEntries) :
       (transcriptEntries[k].entryClass = "transcript-entry active-entry")
          <=> (k - 1 = currentEntryIndex)

\* ------------------------------------------------------------- playing flag
\* C33: isPlaying is true only while the audio element, last told to play, is
\* playing (it has not ended, been paused or been reloaded), and isPlaying is
\* false right after every selectRecording.
C33_PlayingFlagTracksAudio ==
    /\ isPlaying => (audioElement /\ ~audioPaused)
    /\ effects.selected => ~isPlaying

\* The second recording has just been selected: the flag is off and the audio
\* element is paused on the new source.
C33_Witness ==
    /\ effects.selected
    /\ audioElement
    /\ audioPaused
    /\ ~isPlaying
    /\ Len(recordings) >= 2
    /\ selectedRecordingId = recordings[2].id
    /\ audioSrc = recordings[2].audioUrl

\* ----------------------------------------------------- loading comes to an end
\* C34: when every fetch and parse call settles, a state in which a loading
\* flag is on is followed by a state in which isLoadingTranscript and
\* isLoadingRecordings are both off, whatever documents are assigned and
\* whatever recordings are selected.
C34_LoadingEnds ==
    (isLoadingTranscript \/ isLoadingRecordings)
        ~> (~isLoadingTranscript /\ ~isLoadingRecordings)

\* Both flags are off with nothing in flight: after a load that showed entries,
\* or after a document list without audio files.
C34_Witness ==
    /\ documentsProcessed
    /\ ~isLoadingTranscript /\ ~isLoadingRecordings
    /\ inflight = <<>>
    /\ \/ entriesDoc # Null
       \/ documents = DocsNoAudio

\* --------------------------------------------------------------- skip buttons
\* The audio element stands at t: the last handler wrote t as the position.
PositionIs(t) ==
    effects.seek >= 0 /\ effects.seek = t * effects.seekDen

\* C35: with the audio element standing at t, handleSkipBack writes
\* max(0, t - 10) and handleSkipForward writes min(duration, t + 10); the
\* position written lies in [0, duration] for a skip forward and in [0, t] for
\* a skip back, and a skip forward does not write a position before t.
C35_SkipsKeepDirection ==
    [][\A t \in Times :
          /\ (handleSkipBack(t) /\ PositionIs(t)) =>
                /\ effects'.seek = Max(0, t - SkipSeconds * TicksPerSecond)
                /\ effects'.seek >= 0
                /\ effects'.seek <= t
          /\ (handleSkipForward(t) /\ PositionIs(t)) =>
                /\ effects'.seek = Min(duration, t + SkipSeconds * TicksPerSecond)
                /\ effects'.seek <= duration
                /\ effects'.seek >= t
      ]_vars

\* ------------------------------------------------- audio and transcript roles
\* C36: once the documents are processed, the recordings are exactly the
\* documents with an audio file type, and the document paired with a recording
\* as its transcript is never one of them.
C36_RolesDisjoint ==
    documentsProcessed =>
        /\ {recordings[i].id : i \in 1..Len(recordings)}
             = {d.documentId : d \in {x \in Range(documents) :
                   toUpperCase(x.fileType)
                      \in {<<"M", "P", "3">>, <<"W", "A", "V">>, <<"M", "4", "A">>}}}
        /\ \A i \in 1..Len(recordings) :
              \/ recordings[i].transcriptDoc = NullDoc
              \/ toUpperCase(recordings[i].transcriptDoc.fileType)
                    \notin {<<"M", "P", "3">>, <<"W", "A", "V">>, <<"M", "4", "A">>}

\* ------------------------------------------------ order and active recording
\* The sort key of a recording type.
TypeOrder(type) ==
    CASE type = "virtual_agent" -> 0
      [] type = "agent" -> 1
      [] OTHER -> 2

\* C37: when processDocuments has run on documents with an audio file, the
\* recordings are ordered virtual_agent, agent, call, the first one is the
\* selected one, and exactly the recording with the selected id is marked
\* active; the order and the marking survive every later selection and
\* loadedmetadata event.
C37_OrderedFirstSelectedActive ==
    [][/\ \A i, j \in 1..Len(recordings') :
             i < j => TypeOrder(recordings'[i].type) <= TypeOrder(recordings'[j].type)
       /\ \A i \in 1..Len(recordings') :
             recordings'[i].isActive <=> (recordings'[i].id = selectedRecordingId')
       /\ recordings' # <<>> =>
             \E i \in 1..Len(recordings') : recordings'[i].id = selectedRecordingId'
       /\ (~documentsProcessed /\ documentsProcessed' /\ recordings' # <<>>)
             => selectedRecordingId' = recordings'[1].id]_vars

\* The second recording, an agent call after a virtual agent call, has been
\* selected by a click and its metadata has arrived.
C37_Witness ==
    /\ Len(recordings) >= 2
    /\ recordings[1].type = "virtual_agent"
    /\ recordings[2].type = "agent"
    /\ selectedRecordingId = recordings[2].id
    /\ recordings[2].isActive
    /\ ~recordings[1].isActive
    /\ recordings[2].durationDisplay.mins >= 0
    /\ documents[1].documentId = recordings[2].id

\* -------------------------------------------------------- the logger's switches
\* C38: while CONFIG.ENABLED is false no method of a logger instance calls the
\* console, and after Logger.enable() a method whose level passes the minimum
\* level calls it again.
C38_MasterSwitch ==
    [][/\ (~CONFIG'.ENABLED /\ console'.logger \in Loggers)
             => console'.calls = <<>>
       /\ (console.method = "enable"
           /\ console'.method \in {"debug", "info", "warn", "error"}
           /\ LOG_LEVELS[console'.method] >= LOG_LEVELS[CONFIG'.MIN_LEVEL])
             => console'.calls # <<>>]_vars

\* With the logger disabled and everything else as declared, timeEnd has been
\* called on a timer that is running, and nothing was printed.
C38_Witness ==
    /\ ~CONFIG.ENABLED
    /\ CONFIG.ENABLE_TIMING
    /\ CONFIG.ENABLE_GROUPING
    /\ CONFIG.MIN_LEVEL = "debug"
    /\ console.method = "timeEnd"
    /\ timers[console.logger] # {}
    /\ console.calls = <<>>

\* The level of the methods that have one: the level they hand to _shouldLog
\* or to _log (time prints through debug).
MethodLevel ==
    [debug |-> "debug", info |-> "info", warn |-> "warn", error |-> "error",
     success |-> "info", table |-> "debug", lifecycle |-> "debug",
     apex |-> "info", time |-> "debug"]

\* C39: a method calls the console only if its level is at or above
\* CONFIG.MIN_LEVEL, and with MIN_LEVEL 'none' no method calls it at all.
C39_MinimumLevel ==
    /\ CONFIG.MIN_LEVEL = "none" => console.calls = <<>>
    /\ (console.method \in DOMAIN MethodLevel /\ console.calls # <<>>)
          => LOG_LEVELS[MethodLevel[console.method]] >= LOG_LEVELS[CONFIG.MIN_LEVEL]

====
